---- MODULE Spec2Model ----
(***************************************************************************)
(* TemplateParser: a line tokenizer driven by an ordered table of anchored *)
(* regular expressions, and ParseLine, which turns the tokens of a line    *)
(* into typed objects and validates them against a caller's template.      *)
(*                                                                         *)
(* Strings are Go strings: sequences of bytes (0..255).  An ASCII letter   *)
(* is its code, e.g. "r" is 114 and the comment delimiter ";" is 59.       *)
(***************************************************************************)
EXTENDS Integers, Sequences, FiniteSets, TLC

VARIABLES pc, input, offset, tokens, iters, prevOffset,
          txt, templateList, ret, obj, got

vars == <<pc, input, offset, tokens, iters, prevOffset,
          txt, templateList, ret, obj, got>>

(***************************************************************************)
(* Bounds of the model.                                                    *)
(***************************************************************************)
\* longest input of Tokenize drawn over the whole TokAlphabet
MaxLen == 4
\* longest run of hex digits in the inputs built around a run
MaxRun == 17
\* longest line of ParseLine drawn over the whole LineAlphabet
MaxLineLen == 3
\* longest template of ParseLine drawn over all kinds
MaxTemplate == 2

(***************************************************************************)
(* Token kinds and their display names.                                    *)
(***************************************************************************)
TokenIdentifier == 0
TokenQuotedString == 1
TokenUint64 == 2
TokenUint32 == 3
TokenUint16 == 4
TokenUint8 == 5
TokenRegister == 6
TokenMacro == 7
TokenUnknown == 255

TokenKinds ==
  { TokenIdentifier, TokenQuotedString, TokenUint64, TokenUint32, TokenUint16,
    TokenUint8, TokenRegister, TokenMacro, TokenUnknown }

\* the slice TokenNames; Go indexes it from 0, so kind k is TokenNames[k + 1]
TokenNames ==
  << "Identifier", "QuotedString", "Uint64", "Uint32", "Uint16", "Uint8",
     "Register", "Macro" >>

(***************************************************************************)
(* Character classes of the regular expressions, on bytes.                 *)
(***************************************************************************)
\* [0-9a-fA-F]
Hex == (48..57) \cup (97..102) \cup (65..70)

\* [a-zA-Z]
Alpha == (97..122) \cup (65..90)

\* [a-zA-z] as written in the source: the range A-z is 65..122
AlphaAz == (97..122) \cup (65..122)

\* [a-zA-Z0-9_]
Word == (97..122) \cup (65..90) \cup (48..57) \cup { 95 }

\* [a-zA-z0-9_] as written in the source
WordAz == (97..122) \cup (65..122) \cup (48..57) \cup { 95 }

Max(S) == CHOOSE m \in S : \A k \in S : k <= m

Min(S) == CHOOSE m \in S : \A k \in S : m <= k

\* number of consecutive bytes of s from index i on that are in class C,
\* which is what a greedy [C]* consumes there
RunLen(s, i, C) ==
  Max({ k \in (i - 1)..Len(s) : \A j \in i..k : s[j] \in C }) - (i - 1)

(***************************************************************************)
(* The patterns of Tokenize.  Each is anchored at the start of the         *)
(* remaining input; a matcher gives the length of matches[0], or -1 when   *)
(* FindStringSubmatch finds nothing.                                       *)
(***************************************************************************)
\* ^"([^"]*)"
MatchQuotedString(s) ==
  IF Len(s) >= 2 /\ s[1] = 34 /\ \E j \in 2..Len(s) : s[j] = 34
    THEN Min({ j \in 2..Len(s) : s[j] = 34 })
    ELSE -1

\* ^@[a-zA-Z][a-zA-z0-9_]*
MatchMacro(s) ==
  IF Len(s) >= 2 /\ s[1] = 64 /\ s[2] \in Alpha
    THEN 2 + RunLen(s, 3, WordAz)
    ELSE -1

\* ^[a-zA-Z][a-zA-z][a-zA-Z0-9_]*
MatchIdentifier(s) ==
  IF Len(s) >= 2 /\ s[1] \in Alpha /\ s[2] \in AlphaAz
    THEN 2 + RunLen(s, 3, Word)
    ELSE -1

\* ^[0-9a-fA-F]{lo,hi}
MatchHex(s, lo, hi) ==
  LET n == RunLen(s, 1, Hex)
  IN  IF n >= lo THEN (IF n > hi THEN hi ELSE n) ELSE -1

\* ^r[0-9a-fA-F]*
MatchRegister(s) ==
  IF Len(s) >= 1 /\ s[1] = 114 THEN 1 + RunLen(s, 2, Hex) ELSE -1

\* the pattern table, in its order: the kind of each entry
PatternKind ==
  << TokenQuotedString, TokenMacro, TokenIdentifier, TokenUint64, TokenUint32,
     TokenUint16, TokenUint8, TokenRegister >>

\* the pattern table, in its order: the match of entry p on s
PatternMatch(p, s) ==
  CASE p = 1 -> MatchQuotedString(s)
    [] p = 2 -> MatchMacro(s)
    [] p = 3 -> MatchIdentifier(s)
    [] p = 4 -> MatchHex(s, 9, 16)
    [] p = 5 -> MatchHex(s, 5, 8)
    [] p = 6 -> MatchHex(s, 3, 4)
    [] p = 7 -> MatchHex(s, 1, 2)
    [] p = 8 -> MatchRegister(s)

\* string(b) of a byte b: the UTF-8 encoding of the code point b, which is
\* the byte itself below 128 and two bytes from 128 on
ByteToString(b) ==
  IF b < 128 THEN << b >> ELSE << 192 + (b \div 64), 128 + (b % 64) >>

\* one iteration of the scan loop on the remaining input: the token it
\* appends and the amount it adds to offset
ScanOne(remaining) ==
  LET hits == { p \in 1..Len(PatternKind) : PatternMatch(p, remaining) >= 0 }
  IN  IF hits # {}
        THEN LET p == Min(hits)
                 n == PatternMatch(p, remaining)
             IN  [ tok |-> [ Type |-> PatternKind[p],
                             ValueReceived |-> SubSeq(remaining, 1, n) ],
                   adv |-> n ]
        ELSE [ tok |-> [ Type |-> TokenUnknown,
                         ValueReceived |-> ByteToString(remaining[1]) ],
               adv |-> 1 ]

RECURSIVE TokenizeFrom(_, _)
TokenizeFrom(s, off) ==
  IF off < Len(s)
    THEN LET r == ScanOne(SubSeq(s, off + 1, Len(s)))
         IN  << r.tok >> \o TokenizeFrom(s, off + r.adv)
    ELSE << >>

\* Tokenize as a function of its input
Tokenize(s) == TokenizeFrom(s, 0)

(***************************************************************************)
(* EatComments, strings.ToLower and strconv.ParseUint.                     *)
(***************************************************************************)
\* strings.Index(s, c) for a single byte c, counted from 0; -1 when absent
Index(s, c) ==
  IF \E i \in 1..Len(s) : s[i] = c
    THEN Min({ i \in 1..Len(s) : s[i] = c }) - 1
    ELSE -1

EatComments(t) ==
  LET pos == Index(t, 59)
  IN  IF pos > -1 THEN SubSeq(t, 1, pos) ELSE t

\* strings.ToLower on ASCII text: A-Z become a-z, every other byte is kept
ToLower(t) ==
  [ i \in 1..Len(t) |-> IF t[i] \in 65..90 THEN t[i] + 32 ELSE t[i] ]

\* the value of one hex digit
HexDigit(c) ==
  IF c \in 48..57 THEN c - 48
  ELSE IF c \in 97..102 THEN c - 97 + 10
  ELSE c - 65 + 10

\* a number as its base-16 digits, most significant first, without leading
\* zeros (zero is the empty sequence): a uint64 has at most 16 of them
RECURSIVE StripZeros(_)
StripZeros(d) ==
  IF d # << >> /\ Head(d) = 0 THEN StripZeros(Tail(d)) ELSE d

\* strconv.ParseUint(s, 16, 64): a syntax error on an empty string or on a
\* byte that is no hex digit, a range error on a value of 2^64 or more
ParseUint(s) ==
  LET digits == StripZeros([ i \in 1..Len(s) |-> HexDigit(s[i]) ])
  IN  IF Len(s) = 0 \/ \E i \in 1..Len(s) : s[i] \notin Hex
        THEN [ val |-> << >>, err |-> TRUE ]
      ELSE IF Len(digits) > 16
        THEN [ val |-> << >>, err |-> TRUE ]
      ELSE [ val |-> digits, err |-> FALSE ]

(***************************************************************************)
(* ObjectType.  ObjectValue is an interface{}: dyn is the dynamic type of  *)
(* the value it holds, and str, num or bool the value.                     *)
(***************************************************************************)
OBJECT_TYPE_STRING == 0
OBJECT_TYPE_INTEGER == 1
OBJECT_TYPE_BOOLEAN == 2

\* ObjectType{id, s, desc} with s a string
StringObject(id, s, desc) ==
  [ ObjectTypeId |-> id, dyn |-> "string", str |-> s, num |-> << >>,
    bool |-> FALSE, ObjectDescriptor |-> desc ]

\* ObjectType{id, val, desc} with val a uint64
Uint64Object(id, val, desc) ==
  [ ObjectTypeId |-> id, dyn |-> "uint64", str |-> << >>, num |-> val,
    bool |-> FALSE, ObjectDescriptor |-> desc ]

\* ObjectType{id, 0, desc}: the untyped constant 0 is stored as an int
IntZeroObject(id, desc) ==
  [ ObjectTypeId |-> id, dyn |-> "int", str |-> << >>, num |-> << >>,
    bool |-> FALSE, ObjectDescriptor |-> desc ]

(***************************************************************************)
(* ParseLine.                                                              *)
(***************************************************************************)
InvalidHex == "The value of the register is not a valid hex number"

\* the text ParseUint is given for a token: a Register's without its marker
NumberText(token) ==
  IF token.Type = TokenRegister
    THEN Tail(token.ValueReceived)
    ELSE token.ValueReceived

\* LoadObjects with the error object left out of the returned list
RECURSIVE LoadObjectsDropsError(_, _, _)
LoadObjectsDropsError(toks, i, objList) ==
  IF i > Len(toks)
    THEN [ objList |-> objList, invalid |-> FALSE ]
  ELSE LET token == toks[i]
       IN  IF token.Type \in { TokenIdentifier, TokenMacro, TokenQuotedString }
             THEN LoadObjectsDropsError(toks, i + 1,
                    Append(objList,
                           StringObject(token.Type, token.ValueReceived, "")))
           ELSE IF token.Type \in { TokenUint64, TokenUint32, TokenUint16,
                                    TokenUint8, TokenRegister }
             THEN LET r == ParseUint(NumberText(token))
                  IN  IF r.err
                        THEN [ objList |-> objList, invalid |-> TRUE ]
                        ELSE LoadObjectsDropsError(toks, i + 1,
                               Append(objList,
                                      Uint64Object(token.Type, r.val, "")))
           ELSE LoadObjectsDropsError(toks, i + 1, objList)

\* "for _, token := range tokens": the object list after the tokens from i
\* on, and whether the loop left through "return objList, false, ..."
RECURSIVE LoadObjects(_, _, _)
LoadObjects(toks, i, objList) ==
  IF i > Len(toks)
    THEN [ objList |-> objList, invalid |-> FALSE ]
  ELSE LET token == toks[i]
       IN  IF token.Type \in { TokenIdentifier, TokenMacro, TokenQuotedString }
             THEN LoadObjects(toks, i + 1,
                    Append(objList,
                           StringObject(token.Type, token.ValueReceived, "")))
           ELSE IF token.Type \in { TokenUint64, TokenUint32, TokenUint16,
                                    TokenUint8, TokenRegister }
             THEN LET r == ParseUint(NumberText(token))
                  IN  IF r.err
                        THEN [ objList |->
                                 Append(objList,
                                        IntZeroObject(token.Type, InvalidHex)),
                               invalid |-> TRUE ]
                        ELSE LoadObjects(toks, i + 1,
                               Append(objList,
                                      Uint64Object(token.Type, r.val, "")))
           ELSE LoadObjects(toks, i + 1, objList)

\* a returned triple; isNil tells a nil slice from an empty one
Returned(objs, isNil, ok, msg) ==
  [ objs |-> objs, isNil |-> isNil, ok |-> ok, msg |-> msg, fault |-> FALSE ]

\* a run-time panic: nothing is returned
Panicked ==
  [ objs |-> << >>, isNil |-> TRUE, ok |-> FALSE, msg |-> "", fault |-> TRUE ]

\* TokenNames[k] is in range
NameInRange(k) == 0 <= k /\ k < Len(TokenNames)

\* fmt.Sprintf("Expected type (%d)%s but got type (%d)%s: %s", ...)
MismatchMessage(tt, ot, label) ==
  "Expected type (" \o ToString(tt) \o ")" \o TokenNames[tt + 1]
    \o " but got type (" \o ToString(ot) \o ")" \o TokenNames[ot + 1]
    \o ": " \o label

\* MatchTemplate with the comparison stopping one position early
MatchTemplateSkipsLast(objList, tmpl) ==
  LET bad == { idx \in 1..(Len(objList) - 1) :
                 objList[idx].ObjectTypeId # tmpl[idx].TemplateType }
  IN  IF bad = {}
        THEN Returned(objList, FALSE, TRUE, "")
      ELSE LET idx == Min(bad)
               ot == objList[idx].ObjectTypeId
               tt == tmpl[idx].TemplateType
           IN  IF NameInRange(tt) /\ NameInRange(ot)
                 THEN Returned(objList, FALSE, FALSE,
                               MismatchMessage(tt, ot, tmpl[idx].TemplateError))
                 ELSE Panicked

\* "for idx, _ := range objList": the result of the positional comparison
MatchTemplate(objList, tmpl) ==
  LET bad == { idx \in 1..Len(objList) :
                 objList[idx].ObjectTypeId # tmpl[idx].TemplateType }
  IN  IF bad = {}
        THEN Returned(objList, FALSE, TRUE, "")
      ELSE LET idx == Min(bad)
               ot == objList[idx].ObjectTypeId
               tt == tmpl[idx].TemplateType
           IN  IF NameInRange(tt) /\ NameInRange(ot)
                 THEN Returned(objList, FALSE, FALSE,
                               MismatchMessage(tt, ot, tmpl[idx].TemplateError))
                 ELSE Panicked

\* ParseLine handing the objects back on a length mismatch
ParseLineKeepsObjects(t, tmpl) ==
  LET toks == Tokenize(EatComments(ToLower(t)))
      loaded == LoadObjects(toks, 1, << >>)
  IN  IF Len(toks) = 0
        THEN Returned(<< >>, TRUE, FALSE, "No tokens found")
      ELSE IF loaded.invalid
        THEN Returned(loaded.objList, FALSE, FALSE, "Invalid number")
      ELSE IF Len(loaded.objList) # Len(tmpl)
        THEN Returned(loaded.objList, FALSE, FALSE,
                      "Object list and template list length do not match")
      ELSE MatchTemplate(loaded.objList, tmpl)

ParseLine(t, tmpl) ==
  LET toks == Tokenize(EatComments(ToLower(t)))
      loaded == LoadObjects(toks, 1, << >>)
  IN  IF Len(toks) = 0
        THEN Returned(<< >>, TRUE, FALSE, "No tokens found")
      ELSE IF loaded.invalid
        THEN Returned(loaded.objList, FALSE, FALSE, "Invalid number")
      ELSE IF Len(loaded.objList) # Len(tmpl)
        THEN Returned(<< >>, TRUE, FALSE,
                      "Object list and template list length do not match")
      ELSE MatchTemplate(loaded.objList, tmpl)

(***************************************************************************)
(* Inputs.                                                                 *)
(***************************************************************************)
RECURSIVE StringsUpTo(_, _)
StringsUpTo(A, n) ==
  IF n = 0 THEN { << >> }
  ELSE LET shorter == StringsUpTo(A, n - 1)
       IN  shorter \cup { Append(s, c) : s \in shorter, c \in A }

\* n copies of the hex digit "1"
HexRun(n) == [ i \in 1..n |-> 49 ]

\* " @ 1 A _ a g r, a space and the non-ASCII byte 0xC3
TokAlphabet == { 34, 64, 49, 65, 95, 97, 103, 114, 32, 195 }

\* every short string over TokAlphabet, and the runs of hex digits up to
\* MaxRun with at most one byte before and after
TokInputs ==
  StringsUpTo(TokAlphabet, MaxLen)
    \cup { pre \o HexRun(n) \o suf :
             pre \in StringsUpTo({ 114, 97, 32 }, 1),
             n \in 1..MaxRun,
             suf \in StringsUpTo({ 103, 34, 49 }, 1) }

\* ; 1 A a r and a space
LineAlphabet == { 59, 49, 65, 97, 114, 32 }

\* the two lines of the demo program: "mov64 r10 r11" and "mov64 bob alice"
DemoLineGood ==
  << 109, 111, 118, 54, 52, 32, 114, 49, 48, 32, 114, 49, 49 >>

DemoLineBad ==
  << 109, 111, 118, 54, 52, 32, 98, 111, 98, 32, 97, 108, 105, 99, 101 >>

\* lines with a macro reference and a quoted string: @ab  "a"  "a" @ab
\* and  "a;" 1  whose comment starts inside the quotes
SampleLines ==
  { << 64, 97, 98 >>, << 34, 97, 34 >>, << 34, 97, 34, 32, 64, 97, 98 >>,
    << 34, 97, 59, 34, 32, 49 >> }

\* every short line over LineAlphabet, the runs of hex digits up to MaxRun
\* alone and after the register marker, and the lines above
LineInputs ==
  StringsUpTo(LineAlphabet, MaxLineLen)
    \cup { pre \o HexRun(n) : pre \in StringsUpTo({ 114 }, 1), n \in 1..MaxRun }
    \cup { DemoLineGood, DemoLineBad }
    \cup SampleLines

\* a template of the given kinds; the error labels are those of the demo,
\* one per position
ErrorLabels ==
  << "Expected an identifier", "Expected a destination register",
     "Expected a source register", "Expected a fourth operand" >>

TemplateOf(kinds) ==
  [ i \in 1..Len(kinds) |->
      [ TemplateType |-> kinds[i], TemplateError |-> ErrorLabels[i] ] ]

DemoTemplate ==
  TemplateOf(<< TokenIdentifier, TokenRegister, TokenRegister >>)

\* the kinds the longer templates are drawn over
TemplateKinds ==
  { TokenIdentifier, TokenQuotedString, TokenUint8, TokenRegister,
    TokenUnknown }

\* every template of at most MaxTemplate entries over TemplateKinds, every
\* template of one entry, and the demo's
Templates ==
  { TemplateOf(k) : k \in StringsUpTo(TemplateKinds, MaxTemplate) }
    \cup { TemplateOf(<< k >>) : k \in TokenKinds }
    \cup { DemoTemplate }

(***************************************************************************)
(* The scan loop of Tokenize, one iteration per step.                      *)
(***************************************************************************)
\* nothing returned yet
NoRet ==
  [ objs |-> << >>, isNil |-> TRUE, ok |-> FALSE, msg |-> "", fault |-> FALSE ]

\* the zero ObjectType: ObjectValue is the nil interface
NoObj ==
  [ ObjectTypeId |-> 0, dyn |-> "nil", str |-> << >>, num |-> << >>,
    bool |-> FALSE, ObjectDescriptor |-> "" ]

NoGot ==
  [ call |-> "none", fault |-> FALSE, ok |-> FALSE, str |-> << >>,
    num |-> << >>, bool |-> FALSE, text |-> "" ]

InitTok ==
  /\ pc = "scan"
  /\ input \in TokInputs
  /\ offset = 0
  /\ tokens = << >>
  /\ iters = 0
  /\ prevOffset = -1
  /\ txt = << >>
  /\ templateList = << >>
  /\ ret = NoRet
  /\ obj = NoObj
  /\ got = NoGot

\* the body of "for offset < length"
ScanStep ==
  /\ pc = "scan"
  /\ offset < Len(input)
  /\ LET r == ScanOne(SubSeq(input, offset + 1, Len(input)))
     IN  /\ tokens' = Append(tokens, r.tok)
         /\ offset' = offset + r.adv
  /\ prevOffset' = offset
  /\ iters' = iters + 1
  /\ UNCHANGED <<pc, input, txt, templateList, ret, obj, got>>

\* the loop condition fails: return tokens
ScanReturn ==
  /\ pc = "scan"
  /\ ~(offset < Len(input))
  /\ pc' = "done"
  /\ UNCHANGED <<input, offset, tokens, iters, prevOffset,
                 txt, templateList, ret, obj, got>>

NextTok == ScanStep \/ ScanReturn

SpecTok == InitTok /\ [][NextTok]_vars

(***************************************************************************)
(* A call of ParseLine.                                                    *)
(***************************************************************************)
Init ==
  /\ pc = "call"
  /\ txt \in LineInputs
  /\ templateList \in Templates
  /\ ret = NoRet
  /\ input = << >>
  /\ offset = 0
  /\ tokens = << >>
  /\ iters = 0
  /\ prevOffset = -1
  /\ obj = NoObj
  /\ got = NoGot

CallParseLine ==
  /\ pc = "call"
  /\ ret' = ParseLine(txt, templateList)
  /\ pc' = IF ret'.fault THEN "panicked" ELSE "returned"
  /\ UNCHANGED <<input, offset, tokens, iters, prevOffset,
                 txt, templateList, obj, got>>

Next == CallParseLine

Spec == Init /\ [][Next]_vars

(***************************************************************************)
(* An ObjectType and its accessors.                                        *)
(***************************************************************************)
\* the strings, numbers and descriptors the setters are called with
SetStrings == { << >>, << 97 >>, << 97, 98 >> }

SetNumbers == { << >>, << 1 >>, << 15, 15 >> }

SetDescriptors == { "", "desc" }

\* the elements of a sequence
Range(q) == { q[i] : i \in 1..Len(q) }

\* a template as long as the object list of line t, asking for identifiers
TemplateFor(t) ==
  LET toks == Tokenize(EatComments(ToLower(t)))
      n == Cardinality({ i \in 1..Len(toks) : toks[i].Type # TokenUnknown })
  IN  TemplateOf([ i \in 1..n |-> TokenIdentifier ])

\* the objects ParseLine returns to its callers
ParsedObjects ==
  UNION { Range(ParseLine(t, TemplateFor(t)).objs) : t \in LineInputs }

SetString(o, s, desc) ==
  [ o EXCEPT !.ObjectTypeId = OBJECT_TYPE_STRING, !.ObjectDescriptor = desc,
             !.dyn = "string", !.str = s, !.num = << >>, !.bool = FALSE ]

SetInteger(o, i, desc) ==
  [ o EXCEPT !.ObjectTypeId = OBJECT_TYPE_INTEGER, !.ObjectDescriptor = desc,
             !.dyn = "uint64", !.num = i, !.str = << >>, !.bool = FALSE ]

SetBoolean(o, b, desc) ==
  [ o EXCEPT !.ObjectTypeId = OBJECT_TYPE_BOOLEAN, !.ObjectDescriptor = desc,
             !.dyn = "bool", !.bool = b, !.str = << >>, !.num = << >> ]

\* what a getter gives back: fault is a failed type assertion (a panic)
GetterFault(call) ==
  [ call |-> call, fault |-> TRUE, ok |-> FALSE, str |-> << >>, num |-> << >>,
    bool |-> FALSE, text |-> "" ]

GetString(o) ==
  IF o.ObjectTypeId # OBJECT_TYPE_STRING
    THEN [ call |-> "GetString", fault |-> FALSE, ok |-> FALSE, str |-> << >>,
           num |-> << >>, bool |-> FALSE, text |-> "Mismatched object type" ]
  ELSE IF o.dyn # "string" THEN GetterFault("GetString")
  ELSE [ call |-> "GetString", fault |-> FALSE, ok |-> TRUE, str |-> o.str,
         num |-> << >>, bool |-> FALSE, text |-> o.ObjectDescriptor ]

GetInteger(o) ==
  IF o.ObjectTypeId # OBJECT_TYPE_INTEGER
    THEN [ call |-> "GetInteger", fault |-> FALSE, ok |-> FALSE, str |-> << >>,
           num |-> << >>, bool |-> FALSE, text |-> "Mismatch object type" ]
  ELSE IF o.dyn # "uint64" THEN GetterFault("GetInteger")
  ELSE [ call |-> "GetInteger", fault |-> FALSE, ok |-> TRUE, str |-> << >>,
         num |-> o.num, bool |-> FALSE, text |-> "" ]

GetBoolean(o) ==
  IF o.ObjectTypeId # OBJECT_TYPE_BOOLEAN
    THEN [ call |-> "GetBoolean", fault |-> FALSE, ok |-> FALSE, str |-> << >>,
           num |-> << >>, bool |-> FALSE, text |-> "Mismatch object type" ]
  ELSE IF o.dyn # "bool" THEN GetterFault("GetBoolean")
  ELSE [ call |-> "GetBoolean", fault |-> FALSE, ok |-> TRUE, str |-> << >>,
         num |-> << >>, bool |-> o.bool, text |-> "" ]

InitObj ==
  /\ pc = "new"
  /\ obj = NoObj
  /\ got = NoGot
  /\ input = << >>
  /\ offset = 0
  /\ tokens = << >>
  /\ iters = 0
  /\ prevOffset = -1
  /\ txt = << >>
  /\ templateList = << >>
  /\ ret = NoRet

ObjUnchanged ==
  UNCHANGED <<input, offset, tokens, iters, prevOffset, txt, templateList, ret>>

CallSetString ==
  /\ pc \in { "new", "held" }
  /\ \E s \in SetStrings, desc \in SetDescriptors :
       obj' = SetString(obj, s, desc)
  /\ pc' = "held"
  /\ got' = NoGot
  /\ ObjUnchanged

CallSetInteger ==
  /\ pc \in { "new", "held" }
  /\ \E i \in SetNumbers, desc \in SetDescriptors :
       obj' = SetInteger(obj, i, desc)
  /\ pc' = "held"
  /\ got' = NoGot
  /\ ObjUnchanged

CallSetBoolean ==
  /\ pc \in { "new", "held" }
  /\ \E b \in BOOLEAN, desc \in SetDescriptors :
       obj' = SetBoolean(obj, b, desc)
  /\ pc' = "held"
  /\ got' = NoGot
  /\ ObjUnchanged

\* the caller holds an object out of the list ParseLine returned
TakeParsed ==
  /\ pc = "new"
  /\ obj' \in ParsedObjects
  /\ pc' = "held"
  /\ got' = NoGot
  /\ ObjUnchanged

CallGetString ==
  /\ pc = "held"
  /\ got' = GetString(obj)
  /\ UNCHANGED <<pc, obj>>
  /\ ObjUnchanged

CallGetInteger ==
  /\ pc = "held"
  /\ got' = GetInteger(obj)
  /\ UNCHANGED <<pc, obj>>
  /\ ObjUnchanged

CallGetBoolean ==
  /\ pc = "held"
  /\ got' = GetBoolean(obj)
  /\ UNCHANGED <<pc, obj>>
  /\ ObjUnchanged

NextObj ==
  \/ CallSetString
  \/ CallSetInteger
  \/ CallSetBoolean
  \/ TakeParsed
  \/ CallGetString
  \/ CallGetInteger
  \/ CallGetBoolean

SpecObj == InitObj /\ [][NextObj]_vars

(***************************************************************************)
(* Properties of Tokenize, under SpecTok.                                  *)
(***************************************************************************)
\* the texts of a token sequence, one after the other
RECURSIVE ConcatTexts(_)
ConcatTexts(toks) ==
  IF toks = << >> THEN << >>
  ELSE Head(toks).ValueReceived \o ConcatTexts(Tail(toks))

IsAscii(s) == \A i \in 1..Len(s) : s[i] < 128

\* C6: the scan loop runs at most len(input) iterations, every iteration
\* moves the offset strictly forward, and the texts of the returned tokens,
\* in order, are the input: their total length is the input's length.
TokenizeCoversInput ==
  /\ iters <= Len(input)
  /\ iters > 0 => offset > prevOffset
  /\ pc = "done" =>
       /\ offset = Len(input)
       /\ Len(ConcatTexts(tokens)) = Len(input)
       /\ ConcatTexts(tokens) = input

\* C6, on ASCII input only: the same statement
TokenizeCoversAsciiInput == IsAscii(input) => TokenizeCoversInput

\* C7: Tokenize applied to the text of any one token it returned gives
\* exactly that token again.
TokenizeRoundTrip ==
  pc = "done" =>
    \A i \in 1..Len(tokens) :
      Tokenize(tokens[i].ValueReceived) = << tokens[i] >>

\* C7, on ASCII input only: the same statement
TokenizeRoundTripAscii == IsAscii(input) => TokenizeRoundTrip

\* a letter of the alphabet
IsLetter(c) == c \in 65..90 \/ c \in 97..122

\* C8: the text of an Identifier token starts with two letters, and each of
\* its other characters is a letter, a digit or an underscore.
IdentifierShape ==
  \A i \in 1..Len(tokens) :
    tokens[i].Type = TokenIdentifier =>
      LET v == tokens[i].ValueReceived
      IN  /\ Len(v) >= 2
          /\ IsLetter(v[1])
          /\ IsLetter(v[2])
          /\ \A j \in 3..Len(v) : IsLetter(v[j]) \/ v[j] \in 48..57 \/ v[j] = 95

\* C8, as the pattern is written: the second character is in the range A-z,
\* which also holds [ \ ] ^ _ and the backquote
IdentifierShapeAz ==
  \A i \in 1..Len(tokens) :
    tokens[i].Type = TokenIdentifier =>
      LET v == tokens[i].ValueReceived
      IN  /\ Len(v) >= 2
          /\ IsLetter(v[1])
          /\ v[2] \in 65..122
          /\ \A j \in 3..Len(v) : IsLetter(v[j]) \/ v[j] \in 48..57 \/ v[j] = 95

(***************************************************************************)
(* Properties of the accessors, under SpecObj.                             *)
(***************************************************************************)
\* the representation a getter asks for
Requested(call) ==
  CASE call = "GetString" -> "string"
    [] call = "GetInteger" -> "uint64"
    [] call = "GetBoolean" -> "bool"

\* C3: a getter called on an object built by a setter or returned by
\* ParseLine returns without a fault; it reports success only when the
\* object holds the requested representation, and a mismatch otherwise.
GettersNeverFault ==
  got.call # "none" =>
    /\ ~got.fault
    /\ got.ok => obj.dyn = Requested(got.call)
    /\ obj.dyn # Requested(got.call) =>
         ~got.ok /\ got.text \in { "Mismatched object type", "Mismatch object type" }

\* C3, for the objects the setters build: there the type id and the held
\* value agree, and the statement holds
SetterBuilt(o) ==
  \/ o.ObjectTypeId = OBJECT_TYPE_STRING /\ o.dyn = "string"
  \/ o.ObjectTypeId = OBJECT_TYPE_INTEGER /\ o.dyn = "uint64"
  \/ o.ObjectTypeId = OBJECT_TYPE_BOOLEAN /\ o.dyn = "bool"

GettersNeverFaultOnSetterBuilt == SetterBuilt(obj) => GettersNeverFault

(***************************************************************************)
(* Properties of ParseLine, under Spec.                                    *)
(***************************************************************************)
\* the tokens of the lower-cased, comment-stripped line
LineTokens == Tokenize(EatComments(ToLower(txt)))

\* the tokens that are not Unknown, in order
Known(toks) == SelectSeq(toks, LAMBDA t : t.Type # TokenUnknown)

IsNumeric(k) ==
  k \in { TokenUint64, TokenUint32, TokenUint16, TokenUint8, TokenRegister }

\* a numeric or Register token whose digits are no base-16 uint64
FailsToParse(token) == IsNumeric(token.Type) /\ ParseUint(NumberText(token)).err

AllParse(toks) == \A i \in 1..Len(toks) : ~FailsToParse(toks[i])

\* the object a token that parses stands for
ObjectOf(token) ==
  IF IsNumeric(token.Type)
    THEN Uint64Object(token.Type, ParseUint(NumberText(token)).val, "")
    ELSE StringObject(token.Type, token.ValueReceived, "")

ObjectsOf(toks) == [ i \in 1..Len(toks) |-> ObjectOf(toks[i]) ]

KindsAgree(known, tmpl) ==
  /\ Len(known) = Len(tmpl)
  /\ \A i \in 1..Len(known) : known[i].Type = tmpl[i].TemplateType

\* C1: ParseLine returns success exactly when the line has a token, every
\* numeric or Register token parses, and the kinds of the non-Unknown tokens
\* are, position by position, the template's; then the message is empty and
\* the objects are one per non-Unknown token, in order, with its kind.
SuccessExactlyOnMatch ==
  pc # "call" =>
    LET toks == LineTokens
        known == Known(toks)
        match == /\ Len(toks) >= 1
                 /\ AllParse(toks)
                 /\ KindsAgree(known, templateList)
    IN  /\ (pc = "returned" /\ ret.ok) <=> match
        /\ match =>
             /\ ret.msg = ""
             /\ ~ret.isNil
             /\ Len(ret.objs) = Len(known)
             /\ \A i \in 1..Len(known) :
                  ret.objs[i].ObjectTypeId = known[i].Type

\* the demo's first line succeeds with an identifier and two registers
SuccessWitness ==
  /\ pc = "returned"
  /\ ret.ok
  /\ txt = DemoLineGood
  /\ Len(ret.objs) = 3
  /\ ret.objs[2].num = << 1, 0 >>

\* C2: ParseLine always returns; a failure comes back as success=false with
\* a message that is not empty, never as a panic.
ParseLineNeverFaults ==
  pc # "call" =>
    /\ pc = "returned"
    /\ ~ret.fault
    /\ ~ret.ok => ret.msg # ""

\* C4: a line with no recognizable token before the first ";" is reported
\* as empty input, whatever the template: no objects, "No tokens found".
EmptyInputWhenNothingRecognizable ==
  pc # "call" =>
    (Known(LineTokens) = << >> =>
       ret = Returned(<< >>, TRUE, FALSE, "No tokens found"))

\* C4, amended: the line is reported as empty input exactly when nothing at
\* all stands before the first ";": the line is empty or starts with ";".
\* Unrecognizable characters before the ";" are Unknown tokens, and the line
\* goes on to the length check.
EmptyInputExactlyWhenNothingBeforeComment ==
  pc # "call" =>
    LET nothing == txt = << >> \/ txt[1] = 59
    IN  /\ nothing => ret = Returned(<< >>, TRUE, FALSE, "No tokens found")
        /\ ~nothing => ret.msg # "No tokens found"
        /\ (~nothing /\ Known(LineTokens) = << >>) =>
             IF templateList = << >>
               THEN ret = Returned(<< >>, FALSE, TRUE, "")
               ELSE ret = Returned(<< >>, TRUE, FALSE,
                            "Object list and template list length do not match")

\* a line that is only a comment, against a template that is not empty
EmptyInputWitness ==
  /\ pc = "returned"
  /\ Len(txt) >= 2
  /\ txt[1] = 59
  /\ Len(templateList) >= 1
  /\ ret.msg = "No tokens found"

\* the display name of a kind
DisplayName(k) == IF k \in 0..7 THEN TokenNames[k + 1] ELSE "Unknown"

\* C5: when every token parses and there are as many objects as template
\* entries but some kinds differ, ParseLine returns success=false, all the
\* objects, and the message of the lowest differing position: the expected
\* and the produced kind by display name, then that entry's error label.
TypeMismatchReported ==
  pc # "call" =>
    LET toks == LineTokens
        known == Known(toks)
        differ == { i \in 1..Len(known) :
                      i <= Len(templateList)
                        /\ known[i].Type # templateList[i].TemplateType }
    IN  (/\ Len(toks) >= 1
         /\ AllParse(toks)
         /\ Len(known) = Len(templateList)
         /\ differ # {}) =>
          /\ pc = "returned"
          /\ ~ret.ok
          /\ ~ret.isNil
          /\ ret.objs = ObjectsOf(known)
          /\ LET idx == Min(differ)
                 tt == templateList[idx].TemplateType
                 ot == known[idx].Type
             IN  ret.msg =
                   "Expected type (" \o ToString(tt) \o ")" \o DisplayName(tt)
                     \o " but got type (" \o ToString(ot) \o ")"
                     \o DisplayName(ot) \o ": "
                     \o templateList[idx].TemplateError

\* C5, for templates that do not ask for Unknown: the same statement
TypeMismatchReportedForNamedKinds ==
  (\A i \in 1..Len(templateList) :
     templateList[i].TemplateType # TokenUnknown) => TypeMismatchReported

\* C9: when a numeric or Register token fails to parse, ParseLine returns
\* success=false, "Invalid number", and the objects of the earlier tokens
\* followed by a zero-valued, error-annotated object of the failing token's
\* kind; later tokens and the template have no part in the result.
InvalidNumberStopsParse ==
  pc # "call" =>
    LET toks == LineTokens
        bad == { i \in 1..Len(toks) : FailsToParse(toks[i]) }
    IN  bad # {} =>
          LET f == Min(bad)
              before == Known(SubSeq(toks, 1, f - 1))
          IN  /\ pc = "returned"
              /\ ~ret.ok
              /\ ~ret.isNil
              /\ ret.msg = "Invalid number"
              /\ Len(ret.objs) = Len(before) + 1
              /\ SubSeq(ret.objs, 1, Len(before)) = ObjectsOf(before)
              /\ LET last == ret.objs[Len(ret.objs)]
                 IN  /\ last.ObjectTypeId = toks[f].Type
                     /\ last.dyn = "int"
                     /\ last.num = << >>
                     /\ last.ObjectDescriptor # ""

\* a bare register marker after an earlier object and before a later token,
\* against a template the line could not match
InvalidNumberWitness ==
  /\ pc = "returned"
  /\ ret.msg = "Invalid number"
  /\ Len(ret.objs) = 2
  /\ ret.objs[2].ObjectTypeId = TokenRegister
  /\ Len(LineTokens) = 3
  /\ FailsToParse(LineTokens[2])
  /\ Len(templateList) = 1

\* C10: when the line has tokens and they all parse, but the number of
\* non-Unknown tokens is not the template's length, ParseLine returns
\* success=false, the length-mismatch message and a nil object list,
\* whatever the kinds are.
LengthMismatchDiscardsObjects ==
  pc # "call" =>
    LET toks == LineTokens
    IN  (/\ Len(toks) >= 1
         /\ AllParse(toks)
         /\ Len(Known(toks)) # Len(templateList)) =>
          ret = Returned(<< >>, TRUE, FALSE,
                         "Object list and template list length do not match")

\* one object and an Unknown token against a template of two entries
LengthMismatchWitness ==
  /\ pc = "returned"
  /\ ret.msg = "Object list and template list length do not match"
  /\ ret.isNil
  /\ Len(Known(LineTokens)) = 1
  /\ Len(LineTokens) = 2
  /\ Len(templateList) = 2

====
